---- MODULE Spec2Model ----
(***************************************************************************)
(* A model of gopheract: the ReAct controller (OpenAIReActAgent.Run and    *)
(* its Think / Act / Observe steps), the structured-output adapter, the    *)
(* tool-call argument decoding and tool dispatch, and the ACP-facing       *)
(* CliAgent (sessions, Prompt, Cancel, takeTurn) that drives Run.          *)
(***************************************************************************)
EXTENDS Integers, Sequences, FiniteSets, TLC

(***************************************************************************)
(* Bounds of the model.                                                    *)
(***************************************************************************)
\* iterations of the `for` loop of Run that are explored
MaxIter == 2
\* Prompt requests one connection delivers one after another
MaxTurns == 2
\* tools in a registry built from the sample tools
MaxTools == 2
\* argument payloads in one ToolCall
MaxArgs == 2
\* the longest history an agent is constructed with
MaxLen == 2

(***************************************************************************)
(* Go values: pointers, `any` values, map[string]any.                      *)
(***************************************************************************)
\* a nil pointer, and a pointer to v
Nil == <<>>
Ptr(v) == <<v>>
Deref(p) == p[1]

\* values of type `any` as they come out of encoding/json or a tool; a
\* number is hi * 2^53 + n, so that integers beyond the 53 bits a float64
\* holds exactly can be written
JNum(n) == [k |-> "num", hi |-> 0, n |-> n, s |-> ""]
JBig(n) == [k |-> "num", hi |-> 1, n |-> n, s |-> ""]
JStr(s) == [k |-> "str", hi |-> 0, n |-> 0, s |-> s]
JNil == [k |-> "nil", hi |-> 0, n |-> 0, s |-> ""]

\* the float64 a JSON number is decoded to: exact below 2^53; from 2^53 to
\* 2^54 the nearest even integer, a tie going to the even mantissa
Float64(v) ==
    IF v.k # "num" \/ v.hi = 0 \/ v.n % 2 = 0 THEN v
    ELSE IF ((v.n - 1) \div 2) % 2 = 0 THEN [v EXCEPT !.n = v.n - 1]
    ELSE [v EXCEPT !.n = v.n + 1]

\* fmt's %v of a value
FmtV(v) ==
    IF v.k = "num" THEN (IF v.hi = 0 THEN ToString(v.n)
                         ELSE ToString(v.hi) \o "*9007199254740992+" \o ToString(v.n))
    ELSE IF v.k = "str" THEN v.s ELSE "<nil>"

\* map[string]any{}
EmptyMap == [key \in {} |-> JNil]

\* one (value, error) result of a Go call
Ok(v) == [err |-> "", val |-> v]
Fail(e, zero) == [err |-> e, val |-> zero]

(***************************************************************************)
(* ChatMessage and the transport messages built from it.                   *)
(***************************************************************************)
ChatMessage(role, content) == [Role |-> role, Content |-> content]

\* openai.SystemMessage / AssistantMessage / UserMessage
TransportMessage(message) ==
    [kind |-> IF message.Role = "system" THEN "SystemMessage"
              ELSE IF message.Role = "assistant" THEN "AssistantMessage"
              ELSE "UserMessage",
     content |-> message.Content]

\* mutation: the transport messages are built last message first
BuildChatHistoryReversed(history) ==
    [i \in 1..Len(history) |-> TransportMessage(history[Len(history) + 1 - i])]

\* BuildChatHistory: one transport message per entry of the history, in order
BuildChatHistory(history) == [i \in 1..Len(history) |-> TransportMessage(history[i])]

(***************************************************************************)
(* Tool-call arguments: ToolCallArgs.ParameterValue is a string meant to   *)
(* hold serialized JSON; a payload is modelled by what json.Unmarshal into *)
(* a map[string]any makes of it.                                           *)
(***************************************************************************)
JsonObject(obj) == [json |-> "object", obj |-> obj]
NotJson == [json |-> "invalid", obj |-> EmptyMap]

\* json.Unmarshal([]byte(arg.ParameterValue), &unmar): into a
\* map[string]any every number is decoded as a float64
UnmarshalMap(payload) ==
    IF payload.json = "object"
    THEN Ok([key \in DOMAIN payload.obj |-> Float64(payload.obj[key])])
    ELSE Fail("invalid character", EmptyMap)

\* json.Marshal of a parameter mapping, as the string of a ToolCallArgs:
\* integers are written out in full, strings as they are
MarshalMap(mapping) == JsonObject(mapping)

\* mutation: a key keeps the value of the first argument that has it
MergeIntoKeepFirst(args, unmar) ==
    [key \in (DOMAIN args) \cup (DOMAIN unmar) |->
        IF key \in DOMAIN args THEN args[key] ELSE unmar[key]]

\* for k := range unmar { args[k] = unmar[k] }
MergeInto(args, unmar) ==
    [key \in (DOMAIN args) \cup (DOMAIN unmar) |->
        IF key \in DOMAIN unmar THEN unmar[key] ELSE args[key]]

RECURSIVE ArgsLoop(_, _, _)
ArgsLoop(list, i, args) ==
    IF i > Len(list) THEN Ok(args)
    ELSE LET u == UnmarshalMap(list[i])
         IN  IF u.err # "" THEN Fail(u.err, EmptyMap)
             ELSE ArgsLoop(list, i + 1, MergeInto(args, u.val))

\* mutation: only the first argument is decoded
ArgsToMapFirstOnly(toolCall) ==
    IF Len(toolCall.Args) = 0 THEN Ok(EmptyMap) ELSE ArgsLoop(<<toolCall.Args[1]>>, 1, EmptyMap)

\* ToolCall.ArgsToMap
ArgsToMap(toolCall) == ArgsLoop(toolCall.Args, 1, EmptyMap)

(***************************************************************************)
(* Tools: ToolDefinition[T] with GetMetadata and Execute.                  *)
(***************************************************************************)
Field(jsonDef, type) == [JsonDef |-> jsonDef, Type |-> type]

\* cli/main.go: add and multiply over AddParams / MultiplyParams
addTool == [Name |-> "add", Description |-> "Tool for adding two integrer numbers together.",
            Params |-> <<Field("x", "int"), Field("y", "int")>>, Fn |-> "add"]
multiplyTool == [Name |-> "multiply", Description |-> "Tool for multiplying two integrer numbers together.",
                 Params |-> <<Field("x", "int"), Field("y", "int")>>, Fn |-> "multiply"]
\* a second tool registered under the name of the first
addAgainTool == [Name |-> "add", Description |-> "Second tool registered under the name add.",
                 Params |-> <<Field("x", "int"), Field("y", "int")>>, Fn |-> "multiply"]
\* the Read tool of the CLI agent
readTool == [Name |-> "Read", Description |-> "Read a file, providing its path as file_path (string)",
             Params |-> <<Field("file_path", "string")>>, Fn |-> "readFile"]

GetMetadata(tool) == [Name |-> tool.Name, Description |-> tool.Description,
                      ParametersMetadata |-> tool.Params]

\* the zero value of a struct field
ZeroOf(type) == IF type = "int" THEN JNum(0) ELSE JStr("")

\* mapstructure's decoding of one value into one field (no weak typing)
FieldAccepts(type, v) ==
    \/ type = "int" /\ v.k = "num"
    \/ type = "string" /\ v.k = "str"

\* decoder.Decode(params): fields are matched on their json tag; a key the
\* mapping lacks leaves the field at its zero value, a key no field has is
\* ignored, a value of the wrong kind is an error
DecodeParams(tool, params) ==
    LET fields == {tool.Params[i] : i \in 1..Len(tool.Params)}
        names == {f.JsonDef : f \in fields}
        typeOf(name) == (CHOOSE f \in fields : f.JsonDef = name).Type
        bad == {name \in names \cap DOMAIN params : ~FieldAccepts(typeOf(name), params[name])}
    IN  IF bad # {} THEN Fail("error(s) decoding", EmptyMap)
        ELSE Ok([name \in names |->
                    IF name \in DOMAIN params THEN params[name] ELSE ZeroOf(typeOf(name))])

\* mutation: the tool function answers with the sum or with the product
FnResultsFlaky(fn, typed) ==
    {Ok(JNum(typed["x"].n + typed["y"].n)), Ok(JNum(typed["x"].n * typed["y"].n))}

\* t.Fn(typedParams): the results the tool function can give
FnResults(fn, typed) ==
    IF fn = "add"
    THEN {Ok([JNum(typed["x"].n + typed["y"].n) EXCEPT !.hi = typed["x"].hi + typed["y"].hi])}
    ELSE IF fn = "multiply"
    THEN {Ok([JNum(typed["x"].n * typed["y"].n) EXCEPT
                 !.hi = typed["x"].hi * typed["y"].n + typed["y"].hi * typed["x"].n])}
    ELSE {Ok(JStr("content")), Fail("no such file", JNil)}

\* ToolDefinition.Execute: the set of its possible (result, error) outcomes
Execute(tool, params) ==
    LET d == DecodeParams(tool, params)
    IN  IF d.err # "" THEN {Fail(d.err, JNil)} ELSE FnResults(tool.Fn, d.val)

\* ToolDefinition values whose Name or Description is empty or holds the
\* characters the table is drawn with
blankTool == [Name |-> "blank", Description |-> "",
              Params |-> <<Field("x", "int"), Field("y", "int")>>, Fn |-> "add"]
anonTool == [Name |-> "", Description |-> "Tool without a name.",
             Params |-> <<Field("x", "int"), Field("y", "int")>>, Fn |-> "add"]
pipeTool == [Name |-> "pipe", Description |-> "Run a | b\nand print the output",
             Params |-> <<Field("file_path", "string")>>, Fn |-> "readFile"]

\* every registry of up to MaxTools of the sample tools
ToolLists ==
    UNION {[1..n -> {addTool, multiplyTool, readTool, blankTool, anonTool, pipeTool}] : n \in 0..MaxTools}

\* the tool registries an agent is constructed with
Registries == { <<readTool, addTool, multiplyTool>>, <<addTool, addAgainTool>>, <<>> }

RECURSIVE ToolRows(_, _)
ToolRows(tools, i) ==
    IF i > Len(tools) THEN ""
    ELSE "| " \o GetMetadata(tools[i]).Name \o " | " \o GetMetadata(tools[i]).Description
         \o " |\n" \o ToolRows(tools, i + 1)

\* mutation: the rows are written in reverse registration order
ToolTableReversed(tools) ==
    "| Name | Description |\n|-------|-------|\n"
    \o ToolRows([i \in 1..Len(tools) |-> tools[Len(tools) + 1 - i]], 1) \o "\n\n"

\* the Markdown table handed to the system prompt template
ToolTable(tools) == "| Name | Description |\n|-------|-------|\n" \o ToolRows(tools, 1) \o "\n\n"

\* BuildSystemPrompt: the template has the table as its one placeholder
BuildSystemPrompt(tools) == ChatMessage("system", "You are a ReAct agent. Tools:\n" \o ToolTable(tools))

(***************************************************************************)
(* Thought, Observation, StopReason, ToolCall, Action.                     *)
(***************************************************************************)
StopReason(reason) == [Reason |-> reason]
ToolCall(name, args) == [Name |-> name, Args |-> args]
Action(type, stopReason, toolCall) ==
    [ActionType |-> type, StopReason |-> stopReason, ToolCall |-> toolCall]

\* var structuredOutput T for T = Action: empty tag, both payloads nil
ZeroAction == Action("", Nil, Nil)

Done(reason) == Action("_done", Ptr(StopReason(reason)), Nil)
Call(toolCall) == Action("tool_call", Nil, Ptr(toolCall))

(***************************************************************************)
(* The model client and the structured-output adapter.  A response of the  *)
(* client is an error, or a text that is (wf) or is not well-formed JSON   *)
(* for the requested shape; val is what a well-formed text decodes to.     *)
(***************************************************************************)
TransportError(zero) == [err |-> "transport error", wf |-> FALSE, val |-> zero]
Malformed(zero) == [err |-> "", wf |-> FALSE, val |-> zero]
Json(v) == [err |-> "", wf |-> TRUE, val |-> v]

\* LLMStructuredPredict[T]: the error of json.Unmarshal is discarded, so a
\* text that does not parse leaves structuredOutput at its zero value
StructuredPredict(resp, zero) ==
    IF resp.err # "" THEN Fail(resp.err, zero)
    ELSE Ok(IF resp.wf THEN resp.val ELSE zero)

\* the tool calls the model stub may ask for
SampleToolCalls ==
    { ToolCall("add", <<JsonObject([x |-> JNum(2), y |-> JNum(3)])>>),
      ToolCall("add", <<JsonObject([x |-> JNum(2), y |-> JNum(9)]), JsonObject([y |-> JNum(3)])>>),
      ToolCall("add", <<JsonObject([x |-> JNum(2)]), NotJson>>),
      ToolCall("add", <<JsonObject([x |-> JStr("two"), y |-> JNum(3)])>>),
      ToolCall("nope", <<JsonObject([x |-> JNum(2), y |-> JNum(3)])>>),
      ToolCall("nope", <<NotJson>>),
      ToolCall("Read", <<JsonObject([file_path |-> JStr("f")])>>) }

\* the stop reasons the model stub may give
Reasons == {"x", "finished"}

\* every response the model stub may give to a Thought, an Action and an
\* Observation request
FullStub ==
    [thoughts |-> {TransportError(""), Malformed(""), Json("t")},
     actions |-> {TransportError(ZeroAction), Malformed(ZeroAction)}
                 \cup {Json(Done(r)) : r \in Reasons}
                 \cup {Json(Call(tc)) : tc \in SampleToolCalls}
                 \cup {Json(Action("_done", Nil, Nil)),
                       Json(Action("tool_call", Nil, Nil)),
                       Json(Action("_done", Ptr(StopReason("x")), Ptr(ToolCall("add", <<>>)))),
                       Json(Action("tool_call", Ptr(StopReason("x")), Ptr(ToolCall("add", <<>>)))),
                       Json(Action("retry", Nil, Nil))},
     observations |-> {TransportError(""), Malformed(""), Json("o")}]

(***************************************************************************)
(* State.                                                                  *)
(***************************************************************************)
\* the goroutines that call Run
Procs == {1, 2}

VARIABLES
    ChatHistory,   \* OpenAIReActAgent.ChatHistory of the one agent
    Tools,         \* OpenAIReActAgent.Tools
    llm,           \* the responses the model client can give
    run,           \* per goroutine: the locals and the position of its Run
    sessions,      \* CliAgent.sessions: session id -> AgentSession
    turn,          \* per goroutine: the locals and the position of its Prompt
    cancels,       \* per session: the position of a Cancel notification's handler
    twin           \* a second agent built from the same registry and stub: its
                   \* ChatHistory and the locals and the position of its Run

vars == <<ChatHistory, Tools, llm, run, sessions, turn, cancels, twin>>

\* one emitted event: the callback, the loop iteration and the argument
Event(kind, iter, text, action, result) ==
    [kind |-> kind, iter |-> iter, text |-> text, action |-> action, result |-> result]

\* one call Run makes: a model call, or the execution of the tool at an
\* index of the registry with a parameter mapping
ModelCall(op) == [op |-> op, tool |-> 0, params |-> EmptyMap]
ToolExec(index, params) == [op |-> "Execute", tool |-> index, params |-> params]

\* what the last model call gave: its error, and whether its text parsed
ChatOf(resp) == [err |-> resp.err, wf |-> resp.wf]
NoChat == [err |-> "", wf |-> TRUE]

\* the locals of a Run that has not been called; events and calls are the
\* logs of the callbacks invoked and of the calls made, chat and execErr the
\* outcome of the last model call and of the last tool execution, request
\* the transport messages of the model call in progress
IdleRun ==
    [pc |-> "idle", prompt |-> "", iter |-> 0, thought |-> "", action |-> ZeroAction,
     result |-> JNil, observation |-> "", err |-> "", pending |-> <<>>, ret |-> "",
     events |-> <<>>, calls |-> <<>>, chat |-> NoChat, execErr |-> "", request |-> <<>>]

\* a second agent whose Run has not been called
IdleTwin == [ChatHistory |-> <<>>, run |-> IdleRun]

SetRun(p, r) == run' = [run EXCEPT ![p] = r]

\* `return err`
ReturnErr(r, e) == [r EXCEPT !.pc = "returned", !.err = e]

\* o.ChatHistory = append(o.ChatHistory, message): the slice is read here;
\* the new slice is stored by AppendWrite
AppendTo(r, history, message, ret) ==
    [r EXCEPT !.pc = "append_w", !.pending = Append(history, message), !.ret = ret]

(***************************************************************************)
(* OpenAIReActAgent.Run, one definition per step; each maps the locals of  *)
(* the run to the locals after the step.                                   *)
(***************************************************************************)
\* Run is entered: BuildSystemPrompt, then the system message is appended
RunEntry(prompt, history, tools) ==
    AppendTo([IdleRun EXCEPT !.prompt = prompt], history, BuildSystemPrompt(tools), "init_user")

\* the user's prompt is appended
InitUserStep(r, history) == AppendTo(r, history, ChatMessage("user", r.prompt), "think")

\* Think: BuildChatHistory and the request for a Thought
ThinkCallStep(r, history) ==
    [r EXCEPT !.pc = "think_wait", !.iter = @ + 1, !.calls = Append(@, ModelCall("Think")),
              !.request = BuildChatHistory(history)]

\* mutation: the thought is handed on without being appended
ThinkReturnStepNoAppend(r, history, resp) ==
    LET out == StructuredPredict(resp, "")
    IN  IF out.err # "" THEN ReturnErr([r EXCEPT !.chat = ChatOf(resp), !.request = <<>>], out.err)
        ELSE [r EXCEPT !.thought = out.val, !.chat = ChatOf(resp), !.request = <<>>, !.pc = "thought_cb"]

\* Think: the response is decoded and appended as an assistant message
ThinkReturnStep(r, history, resp) ==
    LET out == StructuredPredict(resp, "")
    IN  IF out.err # "" THEN ReturnErr([r EXCEPT !.chat = ChatOf(resp), !.request = <<>>], out.err)
        ELSE AppendTo([r EXCEPT !.thought = out.val, !.chat = ChatOf(resp), !.request = <<>>], history,
                      ChatMessage("assistant", out.val), "thought_cb")

\* mutation: thoughtCallback is not called
ThoughtCbStepSilent(r) == [r EXCEPT !.pc = "act"]

\* thoughtCallback(thought)
ThoughtCbStep(r) ==
    [r EXCEPT !.pc = "act",
              !.events = Append(@, Event("onThought", r.iter, r.thought, ZeroAction, JNil))]

\* Act: BuildChatHistory and the request for an Action
ActCallStep(r, history) ==
    [r EXCEPT !.pc = "act_wait", !.calls = Append(@, ModelCall("Act")),
              !.request = BuildChatHistory(history)]

\* mutation: Act stores the type of the Action as the history
ActReturnStepAppending(r, resp) ==
    LET out == StructuredPredict(resp, ZeroAction)
    IN  IF out.err # "" THEN ReturnErr([r EXCEPT !.chat = ChatOf(resp), !.request = <<>>], out.err)
        ELSE AppendTo([r EXCEPT !.action = out.val, !.chat = ChatOf(resp), !.request = <<>>], <<>>,
                      ChatMessage("assistant", out.val.ActionType), "branch")

\* Act: the response is decoded; nothing is appended
ActReturnStep(r, resp) ==
    LET out == StructuredPredict(resp, ZeroAction)
    IN  IF out.err # "" THEN ReturnErr([r EXCEPT !.chat = ChatOf(resp), !.request = <<>>], out.err)
        ELSE [r EXCEPT !.pc = "branch", !.action = out.val, !.chat = ChatOf(resp), !.request = <<>>]

\* mutation: the loop is left without calling stopCallback
StopStepSilent(r) ==
    IF r.action.StopReason = Nil THEN [r EXCEPT !.pc = "panic"]
    ELSE [r EXCEPT !.pc = "returned", !.err = ""]

\* action.ActionType == "_done": stopCallback(action.StopReason.Reason); break
\* (a nil StopReason is dereferenced: the goroutine panics)
StopStep(r) ==
    IF r.action.StopReason = Nil THEN [r EXCEPT !.pc = "panic"]
    ELSE [r EXCEPT !.pc = "returned", !.err = "",
                   !.events = Append(@, Event("onStop", r.iter,
                                              Deref(r.action.StopReason).Reason, ZeroAction, JNil))]

\* action.ActionType == "tool_call": actionCallback(*action)
ActionCbStep(r) ==
    [r EXCEPT !.pc = "dispatch",
              !.events = Append(@, Event("onAction", r.iter, "", r.action, JNil))]

\* mutation: an unknown ActionType falls through to Observe
UnsupportedStepContinues(r) == [r EXCEPT !.pc = "observe"]

\* any other ActionType
UnsupportedStep(r) == ReturnErr(r, "unsupported action type: " \o r.action.ActionType)

\* mutation: an unknown ActionType leaves the loop as a stop does
BranchStepLenient(r) ==
    IF r.action.ActionType = "_done" THEN StopStep(r)
    ELSE IF r.action.ActionType = "tool_call" THEN ActionCbStep(r)
    ELSE [r EXCEPT !.pc = "returned", !.err = ""]

\* the branch on action.ActionType
BranchStep(r) ==
    IF r.action.ActionType = "_done" THEN StopStep(r)
    ELSE IF r.action.ActionType = "tool_call" THEN ActionCbStep(r)
    ELSE UnsupportedStep(r)

\* mutation: the last tool of the requested name is taken
FirstMatchLast(tools, name) ==
    IF \E i \in 1..Len(tools) : GetMetadata(tools[i]).Name = name
    THEN CHOOSE i \in 1..Len(tools) :
            /\ GetMetadata(tools[i]).Name = name
            /\ \A j \in (i + 1)..Len(tools) : GetMetadata(tools[j]).Name # name
    ELSE 0

\* mutation: ranging over the registry leaves it in reverse order
RangeToolsReordering(tools) == [i \in 1..Len(tools) |-> tools[Len(tools) + 1 - i]]

\* `for _, tool := range o.Tools`: each tool is copied into the loop
\* variable and read through value receivers; this is o.Tools afterwards
RangeTools(tools) == [i \in 1..Len(tools) |-> tools[i]]

\* the index of the first tool of that name in registration order, 0 if none
FirstMatch(tools, name) ==
    IF \E i \in 1..Len(tools) : GetMetadata(tools[i]).Name = name
    THEN CHOOSE i \in 1..Len(tools) :
            /\ GetMetadata(tools[i]).Name = name
            /\ \A j \in 1..(i - 1) : GetMetadata(tools[j]).Name # name
    ELSE 0

\* the message that records a tool result
ToolResultMessage(tool, result) ==
    ChatMessage("user", "Tool call result from " \o GetMetadata(tool).Name \o ": " \o FmtV(result))

\* mutation: the error of Execute is dropped and the result is appended
ExecutedStepIgnoringError(r, history, tool, out) ==
    AppendTo([r EXCEPT !.result = out.val, !.execErr = out.err], history,
             ToolResultMessage(tool, out.val), "tool_end")

\* mutation: a failed execution is passed over and Run goes on to Observe
ExecutedStepSkippingError(r, history, tool, out) ==
    IF out.err # "" THEN [r EXCEPT !.execErr = out.err, !.pc = "observe"]
    ELSE AppendTo([r EXCEPT !.result = out.val, !.execErr = ""], history,
                  ToolResultMessage(tool, out.val), "tool_end")

\* tool.Execute returned
ExecutedStep(r, history, tool, out) ==
    IF out.err # "" THEN ReturnErr([r EXCEPT !.execErr = out.err], out.err)
    ELSE AppendTo([r EXCEPT !.result = out.val, !.execErr = ""], history,
                  ToolResultMessage(tool, out.val), "tool_end")

\* the loop over o.Tools: the first tool of the requested name has the
\* arguments decoded and is executed; without such a tool the loop ends
\* and Run goes on to Observe.  The loop condition dereferences
\* action.ToolCall as soon as there is a tool to compare with.
DispatchOutcomes(r, history, tools) ==
    IF Len(tools) = 0 THEN {[r EXCEPT !.pc = "observe"]}
    ELSE IF r.action.ToolCall = Nil THEN {[r EXCEPT !.pc = "panic"]}
    ELSE LET toolCall == Deref(r.action.ToolCall)
             i == FirstMatch(tools, toolCall.Name)
             args == ArgsToMap(toolCall)
         IN  IF i = 0 THEN {[r EXCEPT !.pc = "observe"]}
             ELSE IF args.err # "" THEN {ReturnErr(r, args.err)}
             ELSE {ExecutedStep([r EXCEPT !.calls = Append(@, ToolExec(i, args.val))],
                                history, tools[i], out) : out \in Execute(tools[i], args.val)}

\* toolEndCallback(result)
ToolEndCbStep(r) ==
    [r EXCEPT !.pc = "observe",
              !.events = Append(@, Event("onToolEnd", r.iter, "", ZeroAction, r.result))]

\* Observe: BuildChatHistory and the request for an Observation
ObserveCallStep(r, history) ==
    [r EXCEPT !.pc = "observe_wait", !.calls = Append(@, ModelCall("Observe")),
              !.request = BuildChatHistory(history)]

\* mutation: the observation is handed to the callback without being appended
ObserveReturnStepNoAppend(r, history, resp) ==
    LET out == StructuredPredict(resp, "")
    IN  IF out.err # "" THEN ReturnErr([r EXCEPT !.chat = ChatOf(resp), !.request = <<>>], out.err)
        ELSE [r EXCEPT !.observation = out.val, !.chat = ChatOf(resp), !.request = <<>>, !.pc = "observation_cb"]

\* Observe: the response is decoded and appended as an assistant message
ObserveReturnStep(r, history, resp) ==
    LET out == StructuredPredict(resp, "")
    IN  IF out.err # "" THEN ReturnErr([r EXCEPT !.chat = ChatOf(resp), !.request = <<>>], out.err)
        ELSE AppendTo([r EXCEPT !.observation = out.val, !.chat = ChatOf(resp), !.request = <<>>], history,
                      ChatMessage("assistant", out.val), "observation_cb")

\* mutation: after the observation the loop goes straight on to Act
ObservationCbStepToAct(r) ==
    [r EXCEPT !.pc = "act",
              !.events = Append(@, Event("onObservation", r.iter, r.observation, ZeroAction, JNil))]

\* observationCallback(observation); the loop starts over
ObservationCbStep(r) ==
    [r EXCEPT !.pc = "think",
              !.events = Append(@, Event("onObservation", r.iter, r.observation, ZeroAction, JNil))]

(***************************************************************************)
(* CliAgent: sessions, Prompt, Cancel and the callbacks of takeTurn.       *)
(***************************************************************************)
SessionIds == {"s1", "s2"}

\* &AgentSession{}: cancel is 0 (nil) or the goroutine whose context it cancels
AgentSession(exists, cancel) == [exists |-> exists, cancel |-> cancel]

\* the responses of the model stub when turns run concurrently: every turn
\* ends at its first Action, with a stop or with an error
CliStub ==
    [thoughts |-> {Json("t")},
     actions |-> {TransportError(ZeroAction), Json(Done("x"))},
     observations |-> {Json("o")}]

\* the responses of the model stub when turns follow one another: a turn
\* stops, calls a registered tool or asks for a tool that is not registered
\* and goes on, or fails at its Action
TurnStub ==
    [thoughts |-> {Json("t")},
     actions |-> {TransportError(ZeroAction), Json(Done("x")),
                  Json(Call(ToolCall("add", <<JsonObject([x |-> JNum(2), y |-> JNum(3)])>>))),
                  Json(Call(ToolCall("nope", <<JsonObject([x |-> JNum(2), y |-> JNum(3)])>>)))},
     observations |-> {Json("o")}]

\* the responses of a model stub that stops at once
TableStub ==
    [thoughts |-> {Json("t")}, actions |-> {Json(Done("x"))}, observations |-> {Json("o")}]

\* the deterministic model stubs: one fixed response to each kind of request
DeterministicStubs ==
    {[thoughts |-> {t}, actions |-> {a}, observations |-> {o}] :
        t \in FullStub.thoughts, a \in FullStub.actions, o \in FullStub.observations}

\* registries of tools whose functions depend on their parameters alone
PureRegistries == { <<addTool, multiplyTool>>, <<addTool, addAgainTool>>, <<>> }

\* the argument payloads a model stub draws its ToolCall from: full and
\* partial parameter sets of the add tool, an integer of more than 53 bits,
\* a value of the wrong kind, and a string that is not JSON
SamplePayloads ==
    { MarshalMap([x |-> JNum(2), y |-> JNum(9)]),
      MarshalMap([y |-> JNum(3)]),
      MarshalMap([x |-> JBig(1), y |-> JNum(3)]),
      MarshalMap([x |-> JStr("two")]),
      NotJson }

\* the model stubs that ask for one call of add, with every list of up to
\* MaxArgs of the sample payloads
ArgsStubs ==
    {[thoughts |-> {Json("t")},
      actions |-> {Json(Call(ToolCall("add", list)))},
      observations |-> {Json("o")}] :
        list \in UNION {[1..n -> SamplePayloads] : n \in 0..MaxArgs}}

\* the prompt a goroutine's request carries: text, or an image block
PromptOf(p) == IF p = 1 THEN "q1" ELSE "q2"
PromptBlocks(p) == {[kind |-> "text", text |-> PromptOf(p)], [kind |-> "image", text |-> ""]}

\* the locals of a Prompt that has not been received
IdleTurn ==
    [pc |-> "idle", sid |-> "", prompt |-> "", ctx |-> "none", toolCallId |-> 0,
     updates |-> <<>>, takeErr |-> "", stopReason |-> "", err |-> "", served |-> 0]

\* one session update handed to a.conn.SessionUpdate
Update(kind, id, text) == [kind |-> kind, id |-> id, text |-> text]

\* a.conn.SessionUpdate(ctx, ...): whether it returns nil; a cancelled
\* context may or may not make the connection refuse the update
SessionUpdateOutcomes(ctx) == IF ctx = "cancelled" THEN {TRUE, FALSE} ELSE {TRUE}

CallId(n) == "call_" \o ToString(n)

\* mutation: the counter of tool calls is left where it is
TakeTurnCallbackNoCount(t, event) ==
    LET update ==
            IF event.kind = "onThought" THEN <<Update("thought", "", event.text)>>
            ELSE IF event.kind = "onObservation"
                 THEN <<Update("message", "", "### Observation\n" \o event.text)>>
            ELSE IF event.kind = "onStop" THEN <<Update("message", "", event.text)>>
            ELSE IF event.kind = "onAction"
                 THEN IF event.action.ToolCall # Nil
                      THEN <<Update("tool_call", CallId(t.toolCallId), "pending")>> ELSE <<>>
            ELSE <<Update("tool_call_update", CallId(t.toolCallId), FmtV(event.result))>>
    IN  [t EXCEPT !.updates = @ \o update]

\* the callbacks takeTurn hands to Run, applied to one event: the update
\* each hands to SessionUpdate (whose error is only logged)
TakeTurnCallback(t, event) ==
    LET id == IF event.kind = "onAction" /\ event.action.ToolCall # Nil
              THEN t.toolCallId + 1 ELSE t.toolCallId
        update ==
            IF event.kind = "onThought" THEN <<Update("thought", "", event.text)>>
            ELSE IF event.kind = "onObservation"
                 THEN <<Update("message", "", "### Observation\n" \o event.text)>>
            ELSE IF event.kind = "onStop" THEN <<Update("message", "", event.text)>>
            ELSE IF event.kind = "onAction"
                 THEN IF event.action.ToolCall # Nil
                      THEN <<Update("tool_call", CallId(id), "pending")>> ELSE <<>>
            ELSE <<Update("tool_call_update", CallId(id), FmtV(event.result))>>
    IN  [t EXCEPT !.toolCallId = id, !.updates = @ \o update]

\* Prompt: the session is looked up and the content blocks are flattened
PromptLookupStep(t, sid, blocks, session) ==
    IF ~session.exists
    THEN [t EXCEPT !.pc = "done", !.sid = sid, !.err = "session " \o sid \o " not found"]
    ELSE IF blocks.kind = "image"
    THEN [t EXCEPT !.pc = "done", !.sid = sid, !.err = "image input not supported"]
    ELSE [t EXCEPT !.pc = "cancel_prev", !.sid = sid, !.prompt = blocks.text \o "\n"]

\* mutation: the error of takeTurn is dropped and the turn ends normally
PromptEndStepLenient(t, err) == [t EXCEPT !.pc = "done", !.stopReason = "end_turn"]

\* Prompt: the outcome of takeTurn decides the response
PromptEndStep(t, err) ==
    IF err # ""
    THEN IF t.ctx = "cancelled" THEN [t EXCEPT !.pc = "done", !.stopReason = "cancelled"]
         ELSE [t EXCEPT !.pc = "done", !.err = err]
    ELSE [t EXCEPT !.pc = "done", !.stopReason = "end_turn"]

(***************************************************************************)
(* Actions.                                                                *)
(***************************************************************************)
\* a nil dereference or a call of a nil function ends the process
Crashed ==
    \/ \E p \in Procs : run[p].pc = "panic"
    \/ \E sid \in SessionIds : cancels[sid] = "panic"

\* a callback of Run: those of takeTurn when the run belongs to a turn
Callback(p, r) ==
    IF turn[p].pc = "run"
    THEN turn' = [turn EXCEPT ![p] = TakeTurnCallback(@, r.events[Len(r.events)])]
    ELSE UNCHANGED turn

\* RunPrint / main: Run is called on the agent
CallRun(p) ==
    /\ ~Crashed
    /\ run[p].pc = "idle" /\ turn[p].pc = "idle"
    /\ SetRun(p, RunEntry(PromptOf(p), ChatHistory, Tools))
    /\ Tools' = RangeTools(Tools)
    /\ UNCHANGED <<twin, ChatHistory, llm, sessions, turn, cancels>>

AppendWrite(p) ==
    /\ ~Crashed
    /\ run[p].pc = "append_w"
    /\ ChatHistory' = run[p].pending
    /\ SetRun(p, [run[p] EXCEPT !.pc = run[p].ret, !.pending = <<>>, !.ret = ""])
    /\ UNCHANGED <<twin, Tools, llm, sessions, turn, cancels>>

InitUser(p) ==
    /\ ~Crashed
    /\ run[p].pc = "init_user"
    /\ SetRun(p, InitUserStep(run[p], ChatHistory))
    /\ UNCHANGED <<twin, ChatHistory, Tools, llm, sessions, turn, cancels>>

ThinkCall(p, bound) ==
    /\ ~Crashed
    /\ run[p].pc = "think" /\ run[p].iter < bound
    /\ SetRun(p, ThinkCallStep(run[p], ChatHistory))
    /\ UNCHANGED <<twin, ChatHistory, Tools, llm, sessions, turn, cancels>>

ThinkReturn(p) ==
    /\ ~Crashed
    /\ run[p].pc = "think_wait"
    /\ \E resp \in llm.thoughts : SetRun(p, ThinkReturnStep(run[p], ChatHistory, resp))
    /\ UNCHANGED <<twin, ChatHistory, Tools, llm, sessions, turn, cancels>>

ThoughtCb(p) ==
    /\ ~Crashed
    /\ run[p].pc = "thought_cb"
    /\ SetRun(p, ThoughtCbStep(run[p]))
    /\ Callback(p, ThoughtCbStep(run[p]))
    /\ UNCHANGED <<twin, ChatHistory, Tools, llm, sessions, cancels>>

ActCall(p) ==
    /\ ~Crashed
    /\ run[p].pc = "act"
    /\ SetRun(p, ActCallStep(run[p], ChatHistory))
    /\ UNCHANGED <<twin, ChatHistory, Tools, llm, sessions, turn, cancels>>

ActReturn(p) ==
    /\ ~Crashed
    /\ run[p].pc = "act_wait"
    /\ \E resp \in llm.actions : SetRun(p, ActReturnStep(run[p], resp))
    /\ UNCHANGED <<twin, ChatHistory, Tools, llm, sessions, turn, cancels>>

Branch(p) ==
    /\ ~Crashed
    /\ run[p].pc = "branch"
    /\ SetRun(p, BranchStep(run[p]))
    /\ IF Len(BranchStep(run[p]).events) > Len(run[p].events)
       THEN Callback(p, BranchStep(run[p])) ELSE UNCHANGED turn
    /\ UNCHANGED <<twin, ChatHistory, Tools, llm, sessions, cancels>>

Dispatch(p) ==
    /\ ~Crashed
    /\ run[p].pc = "dispatch"
    /\ \E r \in DispatchOutcomes(run[p], ChatHistory, Tools) : SetRun(p, r)
    /\ Tools' = RangeTools(Tools)
    /\ UNCHANGED <<twin, ChatHistory, llm, sessions, turn, cancels>>

ToolEndCb(p) ==
    /\ ~Crashed
    /\ run[p].pc = "tool_end"
    /\ SetRun(p, ToolEndCbStep(run[p]))
    /\ Callback(p, ToolEndCbStep(run[p]))
    /\ UNCHANGED <<twin, ChatHistory, Tools, llm, sessions, cancels>>

ObserveCall(p) ==
    /\ ~Crashed
    /\ run[p].pc = "observe"
    /\ SetRun(p, ObserveCallStep(run[p], ChatHistory))
    /\ UNCHANGED <<twin, ChatHistory, Tools, llm, sessions, turn, cancels>>

ObserveReturn(p) ==
    /\ ~Crashed
    /\ run[p].pc = "observe_wait"
    /\ \E resp \in llm.observations : SetRun(p, ObserveReturnStep(run[p], ChatHistory, resp))
    /\ UNCHANGED <<twin, ChatHistory, Tools, llm, sessions, turn, cancels>>

ObservationCb(p) ==
    /\ ~Crashed
    /\ run[p].pc = "observation_cb"
    /\ SetRun(p, ObservationCbStep(run[p]))
    /\ Callback(p, ObservationCbStep(run[p]))
    /\ UNCHANGED <<twin, ChatHistory, Tools, llm, sessions, cancels>>

\* the steps of Run, for a loop explored up to `bound` iterations: those up
\* to the branch on the Action, and all of them
RunToAction(p, bound) ==
    \/ AppendWrite(p) \/ InitUser(p)
    \/ ThinkCall(p, bound) \/ ThinkReturn(p) \/ ThoughtCb(p)
    \/ ActCall(p) \/ ActReturn(p) \/ Branch(p)

RunSteps(p, bound) ==
    \/ RunToAction(p, bound)
    \/ Dispatch(p) \/ ToolEndCb(p)
    \/ ObserveCall(p) \/ ObserveReturn(p) \/ ObservationCb(p)

\* NewSession: a fresh session id gets an empty AgentSession
NewSession(sid) ==
    /\ ~Crashed
    /\ ~sessions[sid].exists
    /\ sessions' = [sessions EXCEPT ![sid] = AgentSession(TRUE, 0)]
    /\ UNCHANGED <<twin, ChatHistory, Tools, llm, run, turn, cancels>>

\* Cancel: the session is looked up and its cancel function found non-nil
CancelCheck(sid) ==
    /\ ~Crashed
    /\ cancels[sid] = "none"
    /\ sessions[sid].exists /\ sessions[sid].cancel # 0
    /\ cancels' = [cancels EXCEPT ![sid] = "checked"]
    /\ UNCHANGED <<twin, ChatHistory, Tools, llm, run, sessions, turn>>

\* Cancel: s.cancel() is read again, outside the lock, and called
CancelCall(sid) ==
    /\ ~Crashed
    /\ cancels[sid] = "checked"
    /\ IF sessions[sid].cancel = 0
       THEN /\ cancels' = [cancels EXCEPT ![sid] = "panic"]
            /\ UNCHANGED turn
       ELSE /\ cancels' = [cancels EXCEPT ![sid] = "none"]
            /\ turn' = [turn EXCEPT ![sessions[sid].cancel].ctx = "cancelled"]
    /\ UNCHANGED <<twin, ChatHistory, Tools, llm, run, sessions>>

\* Prompt is received
PromptLookup(p) ==
    /\ ~Crashed
    /\ turn[p].pc = "idle" /\ run[p].pc = "idle"
    /\ \E sid \in SessionIds, blocks \in PromptBlocks(p) :
          turn' = [turn EXCEPT ![p] = PromptLookupStep(@, sid, blocks, sessions[sid])]
    /\ UNCHANGED <<twin, ChatHistory, Tools, llm, run, sessions, cancels>>

\* Prompt: the cancel function of a previous turn is called
PromptCancelPrev(p) ==
    /\ ~Crashed
    /\ turn[p].pc = "cancel_prev"
    /\ LET prev == sessions[turn[p].sid].cancel
       IN  turn' = [q \in Procs |->
                      IF q = p THEN [turn[q] EXCEPT !.pc = "install"]
                      ELSE IF q = prev THEN [turn[q] EXCEPT !.ctx = "cancelled"]
                      ELSE turn[q]]
    /\ UNCHANGED <<twin, ChatHistory, Tools, llm, run, sessions, cancels>>

\* Prompt: context.WithCancel, and s.cancel = cancel
PromptInstall(p) ==
    /\ ~Crashed
    /\ turn[p].pc = "install"
    /\ turn' = [turn EXCEPT ![p] = [@ EXCEPT !.pc = "notice", !.ctx = "live"]]
    /\ sessions' = [sessions EXCEPT ![turn[p].sid].cancel = p]
    /\ UNCHANGED <<twin, ChatHistory, Tools, llm, run, cancels>>

\* takeTurn: the notice is sent, and Run is called on the agent
TakeTurn(p) ==
    /\ ~Crashed
    /\ turn[p].pc = "notice"
    /\ \E ok \in SessionUpdateOutcomes(turn[p].ctx) :
          IF ok
          THEN /\ turn' = [turn EXCEPT ![p] =
                              [@ EXCEPT !.pc = "run",
                                        !.updates = Append(@, Update("message", "", "Starting to work"))]]
               /\ SetRun(p, RunEntry(turn[p].prompt, ChatHistory, Tools))
               /\ Tools' = RangeTools(Tools)
          ELSE /\ turn' = [turn EXCEPT ![p] = [@ EXCEPT !.pc = "end", !.takeErr = "session update failed"]]
               /\ UNCHANGED <<run, Tools>>
    /\ UNCHANGED <<twin, ChatHistory, llm, sessions, cancels>>

\* Prompt: takeTurn returned; on success s.cancel = nil
PromptEnd(p) ==
    /\ ~Crashed
    /\ \/ turn[p].pc = "end"
       \/ turn[p].pc = "run" /\ run[p].pc = "returned"
    /\ LET err == IF turn[p].pc = "end" THEN turn[p].takeErr ELSE run[p].err
       IN  /\ turn' = [turn EXCEPT ![p] = PromptEndStep(@, err)]
           /\ sessions' = IF err = "" THEN [sessions EXCEPT ![turn[p].sid].cancel = 0]
                          ELSE sessions
    /\ UNCHANGED <<twin, ChatHistory, Tools, llm, run, cancels>>

\* Prompt has returned its response: the locals of the turn and of its Run
\* are gone, and the connection may deliver the next request
PromptReturn(p) ==
    /\ ~Crashed
    /\ turn[p].pc = "done" /\ turn[p].served + 1 < MaxTurns
    /\ turn' = [turn EXCEPT ![p] = [IdleTurn EXCEPT !.served = turn[p].served + 1]]
    /\ SetRun(p, IdleRun)
    /\ UNCHANGED <<twin, ChatHistory, Tools, llm, sessions, cancels>>

\* one Run on a freshly constructed agent
Init ==
    /\ ChatHistory = <<>>
    /\ Tools \in Registries
    /\ llm = FullStub
    /\ run = [p \in Procs |-> IdleRun]
    /\ sessions = [sid \in SessionIds |-> AgentSession(FALSE, 0)]
    /\ turn = [p \in Procs |-> IdleTurn]
    /\ cancels = [sid \in SessionIds |-> "none"]
    /\ twin = IdleTwin

Next == CallRun(1) \/ RunSteps(1, MaxIter)

Spec == Init /\ [][Next]_vars

\* the responses of the model stub of a Run that is followed to its end: a
\* call fails or returns; an Action stops, with or without its stop reason,
\* is of an unknown type, or asks for a tool that succeeds, may fail, or is
\* not registered
FairStub ==
    [thoughts |-> {TransportError(""), Json("t")},
     actions |-> {TransportError(ZeroAction), Json(Done("finished")),
                  Json(Action("_done", Nil, Nil)), Json(Action("retry", Nil, Nil)),
                  Json(Call(ToolCall("add", <<JsonObject([x |-> JNum(2), y |-> JNum(3)])>>))),
                  Json(Call(ToolCall("nope", <<JsonObject([x |-> JNum(2), y |-> JNum(3)])>>))),
                  Json(Call(ToolCall("Read", <<JsonObject([file_path |-> JStr("f")])>>)))},
     observations |-> {TransportError(""), Json("o")}]

InitFair ==
    /\ ChatHistory = <<>>
    /\ Tools \in Registries
    /\ llm = FairStub
    /\ run = [p \in Procs |-> IdleRun]
    /\ sessions = [sid \in SessionIds |-> AgentSession(FALSE, 0)]
    /\ turn = [p \in Procs |-> IdleTurn]
    /\ cancels = [sid \in SessionIds |-> "none"]
    /\ twin = IdleTwin

NextFair == CallRun(1) \/ RunSteps(1, MaxIter)

\* one Run whose goroutine keeps being scheduled and whose calls all return
SpecFair == InitFair /\ [][NextFair]_vars /\ WF_vars(NextFair)

\* the CliAgent with one session created, serving NewSession, Prompt and
\* Cancel requests concurrently, all turns running on its one agent
InitCli ==
    /\ ChatHistory = <<>>
    /\ Tools = <<addTool, multiplyTool>>
    /\ llm = CliStub
    /\ run = [p \in Procs |-> IdleRun]
    /\ sessions = [sid \in SessionIds |-> AgentSession(sid = "s1", 0)]
    /\ turn = [p \in Procs |-> IdleTurn]
    /\ cancels = [sid \in SessionIds |-> "none"]
    /\ twin = IdleTwin

NextCli ==
    \/ \E sid \in SessionIds : NewSession(sid) \/ CancelCheck(sid) \/ CancelCall(sid)
    \/ \E p \in Procs :
          \/ PromptLookup(p) \/ PromptCancelPrev(p) \/ PromptInstall(p)
          \/ TakeTurn(p) \/ PromptEnd(p)
          \/ RunToAction(p, MaxIter)

SpecCli == InitCli /\ [][NextCli]_vars

\* the CliAgent serving the Prompt requests of one connection one after
\* another, every turn running to its end on the one agent
InitTurn ==
    /\ ChatHistory = <<>>
    /\ Tools = <<addTool, multiplyTool>>
    /\ llm = TurnStub
    /\ run = [p \in Procs |-> IdleRun]
    /\ sessions = [sid \in SessionIds |-> AgentSession(sid = "s1", 0)]
    /\ turn = [p \in Procs |-> IdleTurn]
    /\ cancels = [sid \in SessionIds |-> "none"]
    /\ twin = IdleTwin

NextTurn ==
    \/ \E sid \in SessionIds : NewSession(sid)
    \/ PromptLookup(1) \/ PromptCancelPrev(1) \/ PromptInstall(1)
    \/ TakeTurn(1) \/ PromptEnd(1) \/ PromptReturn(1)
    \/ RunSteps(1, MaxIter)

SpecTurn == InitTurn /\ [][NextTurn]_vars

\* Run has come to its end, or to the end of the iterations explored
Finished(r, bound) == r.pc \in {"returned", "panic"} \/ (r.pc = "think" /\ r.iter >= bound)

\* one step of Run on an agent of its own: the locals and the history a
\* step can lead to
RunStepOutcomes(r, history, tools, stub, bound) ==
    LET same(rr) == [ChatHistory |-> history, run |-> rr]
    IN  CASE r.pc = "append_w" ->
                {[ChatHistory |-> r.pending,
                  run |-> [r EXCEPT !.pc = r.ret, !.pending = <<>>, !.ret = ""]]}
          [] r.pc = "init_user" -> {same(InitUserStep(r, history))}
          [] r.pc = "think" /\ r.iter < bound -> {same(ThinkCallStep(r, history))}
          [] r.pc = "think_wait" -> {same(ThinkReturnStep(r, history, resp)) : resp \in stub.thoughts}
          [] r.pc = "thought_cb" -> {same(ThoughtCbStep(r))}
          [] r.pc = "act" -> {same(ActCallStep(r, history))}
          [] r.pc = "act_wait" -> {same(ActReturnStep(r, resp)) : resp \in stub.actions}
          [] r.pc = "branch" -> {same(BranchStep(r))}
          [] r.pc = "dispatch" -> {same(rr) : rr \in DispatchOutcomes(r, history, tools)}
          [] r.pc = "tool_end" -> {same(ToolEndCbStep(r))}
          [] r.pc = "observe" -> {same(ObserveCallStep(r, history))}
          [] r.pc = "observe_wait" ->
                {same(ObserveReturnStep(r, history, resp)) : resp \in stub.observations}
          [] r.pc = "observation_cb" -> {same(ObservationCbStep(r))}
          [] OTHER -> {}

\* Run is called on the second agent, with the prompt of the first, once
\* the Run on the first agent has come to its end
TwinCallRun(bound) ==
    /\ ~Crashed
    /\ Finished(run[1], bound) /\ twin.run.pc = "idle"
    /\ twin' = [twin EXCEPT !.run = RunEntry(run[1].prompt, twin.ChatHistory, Tools)]
    /\ UNCHANGED <<ChatHistory, Tools, llm, run, sessions, turn, cancels>>

\* a step of the Run on the second agent
TwinStep(bound) ==
    /\ ~Crashed
    /\ \E next \in RunStepOutcomes(twin.run, twin.ChatHistory, Tools, llm, bound) : twin' = next
    /\ UNCHANGED <<ChatHistory, Tools, llm, run, sessions, turn, cancels>>

\* two agents constructed with the same registry of pure tools and the same
\* deterministic model stub, each running the same prompt on its own history
InitTwin ==
    /\ ChatHistory = <<>>
    /\ Tools \in PureRegistries
    /\ llm \in DeterministicStubs
    /\ run = [p \in Procs |-> IdleRun]
    /\ sessions = [sid \in SessionIds |-> AgentSession(FALSE, 0)]
    /\ turn = [p \in Procs |-> IdleTurn]
    /\ cancels = [sid \in SessionIds |-> "none"]
    /\ twin = IdleTwin

NextTwin == CallRun(1) \/ RunSteps(1, MaxIter) \/ TwinCallRun(MaxIter) \/ TwinStep(MaxIter)

SpecTwin == InitTwin /\ [][NextTwin]_vars

\* one Run in which the model asks for the add tool with any list of the
\* sample payloads
InitArgs ==
    /\ ChatHistory = <<>>
    /\ Tools = <<addTool, multiplyTool>>
    /\ llm \in ArgsStubs
    /\ run = [p \in Procs |-> IdleRun]
    /\ sessions = [sid \in SessionIds |-> AgentSession(FALSE, 0)]
    /\ turn = [p \in Procs |-> IdleTurn]
    /\ cancels = [sid \in SessionIds |-> "none"]
    /\ twin = IdleTwin

NextArgs == CallRun(1) \/ RunSteps(1, MaxIter)

SpecArgs == InitArgs /\ [][NextArgs]_vars

\* one Run on an agent constructed with any registry of the sample tools
InitTable ==
    /\ ChatHistory = <<>>
    /\ Tools \in ToolLists
    /\ llm = TableStub
    /\ run = [p \in Procs |-> IdleRun]
    /\ sessions = [sid \in SessionIds |-> AgentSession(FALSE, 0)]
    /\ turn = [p \in Procs |-> IdleTurn]
    /\ cancels = [sid \in SessionIds |-> "none"]
    /\ twin = IdleTwin

NextTable == CallRun(1) \/ RunToAction(1, MaxIter)

SpecTable == InitTable /\ [][NextTable]_vars

\* the messages an agent's ChatHistory is filled with when it is constructed
\* with a history: the three roles of the loop, a role it never writes, and
\* the empty role
SampleRoles == {"system", "user", "assistant", "tool", ""}
SampleMessages == {ChatMessage(role, content) : role \in SampleRoles, content \in {"a", "b"}}
Histories == UNION {[1..n -> SampleMessages] : n \in 0..MaxLen}

\* Think, Act or Observe is called on the agent
CallMethod(p) ==
    /\ ~Crashed
    /\ run[p].pc = "idle" /\ turn[p].pc = "idle"
    /\ \E pc \in {"think", "act", "observe"} : SetRun(p, [IdleRun EXCEPT !.pc = pc])
    /\ UNCHANGED <<twin, ChatHistory, Tools, llm, sessions, turn, cancels>>

\* an agent constructed with any history of up to MaxLen sample messages,
\* on which one of the methods Think, Act and Observe is called
InitHistory ==
    /\ ChatHistory \in Histories
    /\ Tools = <<addTool, multiplyTool>>
    /\ llm = TableStub
    /\ run = [p \in Procs |-> IdleRun]
    /\ sessions = [sid \in SessionIds |-> AgentSession(FALSE, 0)]
    /\ turn = [p \in Procs |-> IdleTurn]
    /\ cancels = [sid \in SessionIds |-> "none"]
    /\ twin = IdleTwin

NextHistory ==
    \/ CallMethod(1)
    \/ ThinkCall(1, MaxIter) \/ ThinkReturn(1)
    \/ ActCall(1) \/ ActReturn(1)
    \/ ObserveCall(1) \/ ObserveReturn(1)
    \/ AppendWrite(1)

SpecHistory == InitHistory /\ [][NextHistory]_vars

(***************************************************************************)
(* Properties.                                                             *)
(***************************************************************************)
\* the positions of the events of one kind, and of the tool executions
EventsOf(r, kind) == {i \in DOMAIN r.events : r.events[i].kind = kind}
CallsOf(r, op) == {i \in DOMAIN r.calls : r.calls[i].op = op}

\* the messages of a history that record a tool result
ToolResultMessages ==
    {ToolResultMessage(tool, v) :
        tool \in {addTool, multiplyTool, addAgainTool, readTool},
        v \in {JNum(n) : n \in 0..30} \cup {JStr("content")}}
IsToolResult(message) == message \in ToolResultMessages
ToolResultsIn(history) == {i \in DOMAIN history : IsToolResult(history[i])}

\* C1: when the first Action the model returns is Done with stop reason x,
\* Run returns nil having emitted exactly one onStop, carrying x, and no
\* onToolEnd, and having executed no tool.
C1_DoneFirst ==
    LET r == run[1]
    IN  (r.iter = 1 /\ r.action.ActionType = "_done" /\ r.action.StopReason # Nil /\ r.pc # "branch")
        => /\ r.pc = "returned" /\ r.err = ""
           /\ Cardinality(EventsOf(r, "onStop")) = 1
           /\ \A i \in EventsOf(r, "onStop") : r.events[i].text = Deref(r.action.StopReason).Reason
           /\ EventsOf(r, "onToolEnd") = {}
           /\ CallsOf(r, "Execute") = {}

C1_Witness ==
    /\ run[1].pc = "returned" /\ run[1].err = "" /\ run[1].iter = 1
    /\ run[1].action = Done("finished")
    /\ \E i \in DOMAIN run[1].events : run[1].events[i].kind = "onStop" /\ run[1].events[i].text = "finished"

\* the mapping a list of well-formed payloads stands for: every key of any
\* payload, with the value of the last payload that has it
MergedArgs(list) ==
    LET keys == UNION {DOMAIN list[i].obj : i \in DOMAIN list}
        last(key) == CHOOSE i \in DOMAIN list :
                        /\ key \in DOMAIN list[i].obj
                        /\ \A j \in DOMAIN list : j > i => key \notin DOMAIN list[j].obj
    IN  [key \in keys |-> list[last(key)].obj[key]]

\* the first Action was a ToolCall naming a registered tool, and the
\* Observation of that iteration has been requested
FirstToolCallObserved(r) ==
    /\ Len(r.events) >= 2 /\ r.events[2].kind = "onAction" /\ r.events[2].iter = 1
    /\ r.events[2].action.ToolCall # Nil
    /\ \E i \in DOMAIN Tools : Tools[i].Name = Deref(r.events[2].action.ToolCall).Name
    /\ CallsOf(r, "Observe") # {}

\* C2: when the model returns a ToolCall naming a registered tool with
\* well-formed arguments and then Done, the first tool of that name is
\* executed exactly once, on the merged argument mapping; exactly one
\* onToolEnd is emitted, carrying the result; and when the Observation is
\* requested the history is the system prompt, the user prompt, the thought
\* and one user message "Tool call result from {name}: {result}".
C2_ToolCallThenDone ==
    LET r == run[1]
    IN  FirstToolCallObserved(r) =>
          LET toolCall == Deref(r.events[2].action.ToolCall)
              first == CHOOSE i \in DOMAIN Tools :
                          /\ Tools[i].Name = toolCall.Name
                          /\ \A j \in DOMAIN Tools : j < i => Tools[j].Name # toolCall.Name
              observe == CHOOSE i \in CallsOf(r, "Observe") : \A j \in CallsOf(r, "Observe") : i <= j
              execs == {i \in CallsOf(r, "Execute") : i < observe}
              ends == {i \in EventsOf(r, "onToolEnd") : r.events[i].iter = 1}
          IN  /\ \A i \in DOMAIN toolCall.Args : toolCall.Args[i].json = "object"
              /\ Cardinality(execs) = 1
              /\ \A i \in execs : r.calls[i].tool = first /\ r.calls[i].params = MergedArgs(toolCall.Args)
              /\ Cardinality(ends) = 1
              /\ Len(ChatHistory) >= 4
              /\ ChatHistory[1].Role = "system"
              /\ ChatHistory[2] = ChatMessage("user", r.prompt)
              /\ ChatHistory[3] = ChatMessage("assistant", r.events[1].text)
              /\ \A i \in ends :
                    /\ \E out \in Execute(Tools[first], MergedArgs(toolCall.Args)) :
                          out.err = "" /\ out.val = r.events[i].result
                    /\ ChatHistory[4] = ChatMessage("user", "Tool call result from " \o toolCall.Name
                                                     \o ": " \o FmtV(r.events[i].result))
              /\ (r.iter = 1 /\ r.pc = "observe_wait") => Len(ChatHistory) = 4
              /\ (r.pc = "returned" /\ r.err = "" /\ r.iter = 2)
                    => /\ Cardinality(CallsOf(r, "Execute")) = 1
                       /\ Cardinality(EventsOf(r, "onToolEnd")) = 1
                       /\ ToolResultsIn(ChatHistory) = {4}

C2_Witness ==
    /\ run[1].pc = "returned" /\ run[1].err = "" /\ run[1].iter = 2
    /\ Len(run[1].events) >= 3
    /\ run[1].events[2].kind = "onAction"
    /\ run[1].events[2].action =
          Call(ToolCall("add", <<JsonObject([x |-> JNum(2), y |-> JNum(9)]), JsonObject([y |-> JNum(3)])>>))
    /\ run[1].events[3].kind = "onToolEnd" /\ run[1].events[3].result = JNum(5)
    /\ Len(ChatHistory) >= 4 /\ ChatHistory[4] = ChatMessage("user", "Tool call result from add: 5")

\* the ToolCall of the Action the run holds has a payload that is not JSON
HasBadPayload(r) ==
    /\ r.action.ActionType = "tool_call" /\ r.action.ToolCall # Nil
    /\ \E i \in DOMAIN Deref(r.action.ToolCall).Args : Deref(r.action.ToolCall).Args[i].json # "object"

\* the ToolCall of the Action the run holds names a tool of the registry
NamesRegisteredTool(r) ==
    /\ r.action.ActionType = "tool_call" /\ r.action.ToolCall # Nil
    /\ \E i \in DOMAIN Tools : Tools[i].Name = Deref(r.action.ToolCall).Name

\* C3: for every ToolCall action, whatever its tool name, with an argument
\* payload that is not valid JSON, Run returns the argument-decode error; no
\* tool is executed and no onToolEnd or onObservation follows in that
\* iteration.
C3_BadArgsAbort ==
    LET r == run[1]
    IN  (HasBadPayload(r) /\ r.pc \notin {"branch", "dispatch"})
        => /\ r.pc = "returned" /\ r.err = "invalid character"
           /\ \A i \in DOMAIN r.events :
                 r.events[i].iter = r.iter => r.events[i].kind \notin {"onToolEnd", "onObservation"}
           /\ r.calls[Len(r.calls)].op # "Execute"
           /\ ~IsToolResult(ChatHistory[Len(ChatHistory)])

\* C4: when a ToolCall action names a tool that is not in the registry, Run
\* returns an error instead of going on to Observe.
C4_UnknownToolAborts ==
    LET r == run[1]
    IN  (r.action.ActionType = "tool_call" /\ r.action.ToolCall # Nil
         /\ ~NamesRegisteredTool(r) /\ r.pc \notin {"branch", "dispatch"})
        => r.pc = "returned" /\ r.err # ""

\* C5: when the text the model returned is not well-formed JSON for the
\* requested shape, the structured-output step returns an error and Run
\* returns it; no zero value is appended or branched on.
C5_MalformedIsDecodeError ==
    LET r == run[1]
    IN  (r.chat.err = "" /\ ~r.chat.wf) => (r.pc = "returned" /\ r.err # "")

\* an Action whose payload does not match its tag
Mismatched(action) ==
    \/ action.ActionType = "_done" /\ action.StopReason = Nil
    \/ action.ActionType = "tool_call" /\ action.ToolCall = Nil
    \/ action.StopReason # Nil /\ action.ToolCall # Nil

\* C6: an Action whose payload does not match its tag is rejected: Run
\* returns an error, without a crash and without an onStop or onAction for it.
C6_MismatchRejected ==
    LET r == run[1]
    IN  (Mismatched(r.action) /\ r.pc # "branch")
        => /\ r.pc = "returned" /\ r.err # ""
           /\ \A i \in DOMAIN r.events :
                 r.events[i].iter = r.iter => r.events[i].kind \notin {"onStop", "onAction"}

\* C7: when the Action's type is neither "_done" nor "tool_call", the next
\* step of Run returns the "unsupported action type" error: no callback is
\* invoked, no call is made and nothing is appended; and a Run that has
\* returned does nothing more.
C7_UnsupportedAborts ==
    [][ LET r == run[1]
        IN  /\ (r.pc = "branch" /\ r.action.ActionType \notin {"_done", "tool_call"})
               => /\ run'[1].pc = "returned"
                  /\ run'[1].err = "unsupported action type: " \o r.action.ActionType
                  /\ run'[1].events = r.events
                  /\ run'[1].calls = r.calls
                  /\ ChatHistory' = ChatHistory
            /\ r.pc = "returned" => (run' = run /\ ChatHistory' = ChatHistory) ]_vars

C7_Witness ==
    /\ run[1].pc = "returned" /\ run[1].err = "unsupported action type: retry"
    /\ run[1].iter = 2 /\ run[1].events[Len(run[1].events)].kind = "onThought"

\* a value of the parameter mapping has the wrong kind for the field of the
\* tool that carries its name
WrongKind(tool, params) ==
    \E i \in DOMAIN tool.Params :
        /\ tool.Params[i].JsonDef \in DOMAIN params
        /\ params[tool.Params[i].JsonDef].k # (IF tool.Params[i].Type = "int" THEN "num" ELSE "str")

\* C8: every error is fatal to the run.  The step in which a model call
\* fails, the arguments of a call to a registered tool fail to decode, or a
\* tool execution fails (always so when a value has the wrong kind) returns
\* that error: no callback is invoked, nothing is appended and no call is
\* made in or after that step.
C8_ErrorsAreFatal ==
    [][ LET r == run[1]
            n == run'[1]
            aborted(e) == /\ n.pc = "returned" /\ n.err = e /\ e # ""
                          /\ n.events = r.events
                          /\ ChatHistory' = ChatHistory
        IN  /\ (r.pc \in {"think_wait", "act_wait", "observe_wait"} /\ n # r /\ n.chat.err # "")
               => (aborted(n.chat.err) /\ n.calls = r.calls)
            /\ (r.pc = "dispatch" /\ n # r /\ NamesRegisteredTool(r) /\ HasBadPayload(r))
               => (aborted("invalid character") /\ n.calls = r.calls)
            /\ (r.pc = "dispatch" /\ n # r /\ Len(n.calls) > Len(r.calls))
               => /\ n.calls = Append(r.calls, n.calls[Len(n.calls)])
                  /\ WrongKind(Tools[n.calls[Len(n.calls)].tool], n.calls[Len(n.calls)].params)
                        => n.execErr # ""
                  /\ n.execErr # "" => aborted(n.execErr)
            /\ r.pc = "returned" => (run' = run /\ ChatHistory' = ChatHistory) ]_vars

C8_Witness ==
    /\ run[1].pc = "returned" /\ run[1].err = "no such file"
    /\ run[1].iter = 2 /\ run[1].calls[Len(run[1].calls)].op = "Execute"

\* the place of a callback in an iteration
Rank(kind) ==
    CASE kind = "onThought" -> 1
      [] kind = "onAction" -> 2
      [] kind = "onStop" -> 2
      [] kind = "onToolEnd" -> 3
      [] kind = "onObservation" -> 4

\* C9: callbacks are invoked in iteration order, and within an iteration in
\* the order onThought, onAction, onToolEnd, onObservation, each at most
\* once; every callback of an iteration comes after its onThought; onStop is
\* invoked at most once, last, right after the onThought of its iteration.
C9_EventOrder ==
    LET ev == run[1].events
    IN  /\ \A i, j \in DOMAIN ev :
              i < j => /\ ev[i].iter <= ev[j].iter
                       /\ ev[i].iter = ev[j].iter => Rank(ev[i].kind) < Rank(ev[j].kind)
        /\ \A j \in DOMAIN ev :
              ev[j].kind # "onThought"
                 => \E i \in DOMAIN ev : i < j /\ ev[i].kind = "onThought" /\ ev[i].iter = ev[j].iter
        /\ Cardinality(EventsOf(run[1], "onStop")) <= 1
        /\ \A i \in EventsOf(run[1], "onStop") :
              /\ i = Len(ev) /\ i > 1
              /\ ev[i - 1].kind = "onThought" /\ ev[i - 1].iter = ev[i].iter
        /\ \A i \in DOMAIN ev :
              /\ ev[i].kind = "onThought" => ev[i].iter = Cardinality({j \in 1..i : ev[j].kind = "onThought"})
              /\ (ev[i].kind = "onThought" /\ ev[i].iter > 1)
                    => ev[i - 1].kind = "onObservation" /\ ev[i - 1].iter = ev[i].iter - 1

C9_Witness ==
    LET ev == run[1].events
    IN  /\ Len(ev) = 6
        /\ ev[1].kind = "onThought" /\ ev[2].kind = "onAction" /\ ev[3].kind = "onToolEnd"
        /\ ev[4].kind = "onObservation" /\ ev[5].kind = "onThought" /\ ev[6].kind = "onStop"

\* C10: when turns of two distinct sessions run at the same time, the
\* history each works on holds one system prompt and no user prompt but its
\* own, and the two runs are never both in the middle of an append.
C10_IsolatedHistories ==
    \A p, q \in Procs :
        (p # q /\ turn[p].pc = "run" /\ turn[q].pc = "run" /\ turn[p].sid # turn[q].sid)
        => /\ ~(run[p].pc = "append_w" /\ run[q].pc = "append_w")
           /\ Cardinality({i \in DOMAIN ChatHistory : ChatHistory[i].Role = "system"}) <= 1
           /\ \A i \in DOMAIN ChatHistory :
                 ChatHistory[i].Role = "user" => ChatHistory[i].Content = turn[p].prompt

\* C11: once Cancel has been delivered for a session with a run in flight,
\* that run starts no further model call and no tool execution, and the
\* Prompt of that turn returns with stop reason Cancelled.
C11_CancelInterrupts ==
    [][ \A p \in Procs :
           (turn[p].pc = "run" /\ turn[p].ctx = "cancelled")
           => /\ Len(run'[p].calls) = Len(run[p].calls)
              /\ turn'[p].pc = "done" => turn'[p].stopReason = "cancelled" ]_vars

\* C12: in every state of the history any system-role message is its
\* first element, and once a Run has appended its prompts the history starts
\* with the rendered system prompt followed by that Run's user prompt; also
\* for a Run on an agent that has completed a run before.
C12_SystemFirst ==
    /\ \A i \in DOMAIN ChatHistory : ChatHistory[i].Role = "system" => i = 1
    /\ (turn[1].pc = "run" /\ run[1].iter >= 1)
          => /\ Len(ChatHistory) >= 2
             /\ ChatHistory[1] = BuildSystemPrompt(Tools)
             /\ ChatHistory[2] = ChatMessage("user", run[1].prompt)

\* C13: the history is append-only: every step leaves it unchanged or
\* extends it at the end, so that the history before a step is a prefix of
\* the history after it.
C13_AppendOnly ==
    [][ /\ Len(ChatHistory') >= Len(ChatHistory)
        /\ SubSeq(ChatHistory', 1, Len(ChatHistory)) = ChatHistory ]_vars

\* a text cut at every occurrence of a character
Split(text, sep) ==
    LET at == {i \in 1..Len(text) : SubSeq(text, i, i) = sep}
        cut(k) == CHOOSE i \in at : Cardinality({j \in at : j < i}) = k - 1
        n == Cardinality(at)
    IN  [k \in 1..(n + 1) |->
            SubSeq(text, IF k = 1 THEN 1 ELSE cut(k - 1) + 1,
                         IF k = n + 1 THEN Len(text) ELSE cut(k) - 1)]

HasChar(text, c) == \E i \in 1..Len(text) : SubSeq(text, i, i) = c

\* a table cell without the blank that pads it on either side
Trim(cell) ==
    IF Len(cell) >= 2 /\ SubSeq(cell, 1, 1) = " " /\ SubSeq(cell, Len(cell), Len(cell)) = " "
    THEN SubSeq(cell, 2, Len(cell) - 1) ELSE cell

\* the columns of one line of a Markdown table
RowCells(line) ==
    LET cells == Split(line, "|")
    IN  [j \in 1..(Len(cells) - 2) |-> Trim(cells[j + 1])]

\* the rows of the first Markdown table of a text, read as a Markdown
\* reader does: the lines after the header and the delimiter line, up to
\* the first empty line
TableRows(text) ==
    LET lines == Split(text, "\n")
        header == CHOOSE h \in 1..Len(lines) :
                     /\ lines[h] = "| Name | Description |"
                     /\ \A g \in 1..(h - 1) : lines[g] # "| Name | Description |"
        last == CHOOSE k \in (header + 1)..Len(lines) :
                   /\ \A j \in (header + 2)..k : lines[j] # ""
                   /\ k = Len(lines) \/ lines[k + 1] = ""
    IN  [j \in 1..(last - header - 1) |-> RowCells(lines[header + 1 + j])]

\* the table of a system prompt has one row per tool of the registry, in
\* registration order, with the tool's name and description as its columns,
\* neither of them empty
OneRowPerTool(text, tools) ==
    LET rows == TableRows(text)
    IN  /\ Len(rows) = Len(tools)
        /\ \A i \in 1..Len(tools) :
              /\ rows[i] = <<tools[i].Name, tools[i].Description>>
              /\ rows[i][1] # "" /\ rows[i][2] # ""

\* a tool whose name and description are not empty and hold neither "|" nor
\* a line break
PlainTool(tool) ==
    /\ tool.Name # "" /\ tool.Description # ""
    /\ \A c \in {"|", "\n"} : ~HasChar(tool.Name, c) /\ ~HasChar(tool.Description, c)

\* C14 (as stated): for every list of registered tools, the table in the
\* system prompt has exactly one row per tool, in registration order, each
\* with a non-empty name column and a non-empty description column.
C14_AnyRegistry ==
    (Len(ChatHistory) >= 1 /\ ChatHistory[1].Role = "system")
       => OneRowPerTool(ChatHistory[1].Content, Tools)

\* C14 (amended): for every list of registered tools whose names and
\* descriptions are non-empty and hold neither "|" nor a line break, the
\* table in the system prompt has exactly one row per tool, in registration
\* order, each with a non-empty name column and a non-empty description
\* column.
C14_PlainRegistry ==
    (Len(ChatHistory) >= 1 /\ ChatHistory[1].Role = "system"
     /\ \A i \in 1..Len(Tools) : PlainTool(Tools[i]))
       => OneRowPerTool(ChatHistory[1].Content, Tools)

C14_Witness ==
    /\ Tools = <<readTool, addTool>>
    /\ Len(ChatHistory) >= 1 /\ ChatHistory[1] = BuildSystemPrompt(Tools)
    /\ TableRows(ChatHistory[1].Content)[2][1] = "add"

LastExecuteUnconvertible(r) ==
    /\ Len(r.calls) > 0 /\ r.calls[Len(r.calls)].op = "Execute"
    /\ LET tool == Tools[r.calls[Len(r.calls)].tool]
           params == r.calls[Len(r.calls)].params
       IN  \/ \E i \in DOMAIN tool.Params : tool.Params[i].JsonDef \notin DOMAIN params
           \/ WrongKind(tool, params)

\* C16: whenever the parameter mapping cannot be converted to the tool's
\* declared shape (a declared field is missing, or a value has the wrong
\* kind), Execute fails, no result comes out of the tool function, and the
\* error is returned by Run.
C16_UnconvertibleFails ==
    LET r == run[1]
    IN  LastExecuteUnconvertible(r)
        => r.execErr # "" /\ r.pc = "returned" /\ r.err = r.execErr

\* a parameter mapping of the declared shape of a tool: one value of the
\* declared kind for every declared field, and nothing else
OfDeclaredShape(tool, mapping) ==
    /\ DOMAIN mapping = {tool.Params[i].JsonDef : i \in DOMAIN tool.Params}
    /\ ~WrongKind(tool, mapping)

\* the argument list of the ToolCall the run holds (empty if it holds none)
ArgsHeld(r) ==
    IF r.action.ActionType = "tool_call" /\ r.action.ToolCall # Nil
    THEN Deref(r.action.ToolCall).Args ELSE <<>>

\* C17: for every parameter mapping of the declared shape of a registered
\* tool, encoding it as the JSON string of one ToolCallArgs and decoding it
\* with ArgsToMap yields the mapping again, with the same keys and values.
C17_RoundTrip ==
    \A i \in DOMAIN ArgsHeld(run[1]), t \in DOMAIN Tools :
        LET mapping == ArgsHeld(run[1])[i].obj
        IN  (ArgsHeld(run[1])[i].json = "object" /\ OfDeclaredShape(Tools[t], mapping))
            => ArgsToMap(ToolCall(Tools[t].Name, <<MarshalMap(mapping)>>)) = Ok(mapping)

\* C18: ArgsToMap merges the argument list in list order: an empty list
\* gives the empty mapping and no error; if every payload decodes, the keys
\* of the result are the keys of all payloads and each key has the value
\* the last payload holding it decodes to; if a payload fails to decode, an
\* error is returned with no mapping, and Run executes nothing.
C18_MergeInListOrder ==
    LET r == run[1]
        list == ArgsHeld(r)
        out == ArgsToMap(ToolCall("add", list))
    IN  /\ list = <<>> => out = Ok(EmptyMap)
        /\ (\A i \in DOMAIN list : list[i].json = "object")
              => /\ out.err = ""
                 /\ DOMAIN out.val = UNION {DOMAIN list[i].obj : i \in DOMAIN list}
                 /\ \A key \in DOMAIN out.val :
                       \E i \in DOMAIN list :
                          /\ key \in DOMAIN list[i].obj
                          /\ \A j \in DOMAIN list : j > i => key \notin DOMAIN list[j].obj
                          /\ out.val[key] = Float64(list[i].obj[key])
        /\ (\E i \in DOMAIN list : list[i].json # "object")
              => /\ out.err # "" /\ out.val = EmptyMap
                 /\ CallsOf(r, "Execute") = {}
                 /\ r.pc \notin {"branch", "dispatch"} => (r.pc = "returned" /\ r.err = out.err)
        /\ \A c \in CallsOf(r, "Execute") : r.calls[c].params = out.val

C18_Witness ==
    /\ ArgsHeld(run[1]) = <<MarshalMap([x |-> JNum(2), y |-> JNum(9)]), MarshalMap([y |-> JNum(3)])>>
    /\ \E c \in CallsOf(run[1], "Execute") :
          run[1].calls[c].params = [x |-> JNum(2), y |-> JNum(3)]
    /\ run[1].result = JNum(5)

\* the assistant-role messages of a history
AssistantIn(history) == {i \in DOMAIN history : history[i].Role = "assistant"}

\* C19: each successful Think and each successful Observe appends exactly
\* one assistant message holding its text, and has done so before the
\* callback is invoked with that text; a failed Think or Observe appends
\* nothing.  So the assistant messages are as many as the thoughts and
\* observations handed or about to be handed to a callback, and the
\* history ends with the text when the callback is due and when it has just
\* been invoked.
C19_AppendThenCallback ==
    LET r == run[1]
        last == ChatHistory[Len(ChatHistory)]
        due == IF r.pc \in {"thought_cb", "observation_cb"} THEN 1 ELSE 0
    IN  /\ Cardinality(AssistantIn(ChatHistory))
              = Cardinality(EventsOf(r, "onThought")) + Cardinality(EventsOf(r, "onObservation")) + due
        /\ r.pc = "thought_cb" => last = ChatMessage("assistant", r.thought)
        /\ r.pc = "observation_cb" => last = ChatMessage("assistant", r.observation)
        /\ (r.pc \in {"act", "think"} /\ r.events # <<>>)
              => /\ r.events[Len(r.events)].kind \in {"onThought", "onObservation"}
                 /\ last = ChatMessage("assistant", r.events[Len(r.events)].text)
        /\ (r.pc = "returned" /\ r.chat.err # "" /\ r.calls[Len(r.calls)].op \in {"Think", "Observe"})
              => r.pending = <<>>

C19_Witness ==
    /\ run[1].pc = "think" /\ run[1].iter = 1
    /\ run[1].events[Len(run[1].events)].kind = "onObservation"
    /\ ChatHistory[Len(ChatHistory)] = ChatMessage("assistant", "o")
    /\ Cardinality(AssistantIn(ChatHistory)) = 2

\* C20: obtaining an Action leaves the history unchanged: no step from the
\* request for the Action to the branch on it, a stop included, changes the
\* history or begins an append.
C20_ActAppendsNothing ==
    [][ run[1].pc \in {"act", "act_wait", "branch"}
           => /\ ChatHistory' = ChatHistory
              /\ run'[1].pc # "append_w" /\ run'[1].pending = <<>> ]_vars

C20_Witness ==
    /\ run[1].pc = "returned" /\ run[1].err = "" /\ run[1].iter = 1
    /\ run[1].events[Len(run[1].events)].kind = "onStop"
    /\ Len(ChatHistory) = 3 /\ ChatHistory[3] = ChatMessage("assistant", run[1].thought)

\* C21: when the executed tool returns an error, Run returns that error and
\* there is no retry: the failed execution is the last call Run made, it
\* follows the Act that asked for it, no tool-result message records it, no
\* onToolEnd was emitted in its iteration, the last event is the onAction of
\* that iteration, and no Observe or later Think was made.
C21_ToolErrorAborts ==
    LET r == run[1]
        last == Len(r.calls)
    IN  r.execErr # ""
        => /\ r.pc = "returned" /\ r.err = r.execErr
           /\ r.calls[last].op = "Execute" /\ r.calls[last - 1].op = "Act"
           /\ Cardinality(CallsOf(r, "Think")) = r.iter
           /\ Cardinality(CallsOf(r, "Observe")) = r.iter - 1
           /\ Cardinality(ToolResultsIn(ChatHistory)) = Cardinality(CallsOf(r, "Execute")) - 1
           /\ \A i \in EventsOf(r, "onToolEnd") : r.events[i].iter < r.iter
           /\ r.events[Len(r.events)].kind = "onAction"
           /\ r.events[Len(r.events)].iter = r.iter
           /\ r.pending = <<>>

C21_Witness ==
    /\ run[1].pc = "returned" /\ run[1].execErr = "no such file" /\ run[1].iter = 1
    /\ Len(ChatHistory) = 3 /\ ToolResultsIn(ChatHistory) = {}
    /\ Deref(run[1].action.ToolCall).Name = "Read"

\* the iteration a call belongs to: the Think calls made up to it
IterOf(r, i) == Cardinality({j \in CallsOf(r, "Think") : j < i})

\* the name the onAction event of an iteration asked for
RequestedName(r, iter) ==
    LET e == CHOOSE i \in EventsOf(r, "onAction") : r.events[i].iter = iter
    IN  Deref(r.events[e].action.ToolCall).Name

\* C22: tool lookup is first-match-wins.  Every execution directly follows
\* the Act that asked for it (so a ToolCall leads to at most one execution),
\* the tool executed carries the requested name and no tool registered
\* before it does, the history never holds more tool-result messages than
\* executions were made, and with two tools registered as "add" the result
\* recorded for add(2, 3) is that of the first (5), never of the second (6).
C22_FirstMatchWins ==
    LET r == run[1]
    IN  /\ \A i \in CallsOf(r, "Execute") :
              /\ r.calls[i - 1].op = "Act"
              /\ GetMetadata(Tools[r.calls[i].tool]).Name = RequestedName(r, IterOf(r, i))
              /\ \A j \in 1..(r.calls[i].tool - 1) :
                    GetMetadata(Tools[j]).Name # RequestedName(r, IterOf(r, i))
        /\ Cardinality(ToolResultsIn(ChatHistory)) <= Cardinality(CallsOf(r, "Execute"))
        /\ Cardinality(ToolResultsIn(r.pending)) <= Cardinality(CallsOf(r, "Execute"))
        /\ Tools = <<addTool, addAgainTool>>
              => \A i \in DOMAIN ChatHistory :
                    ChatHistory[i] # ToolResultMessage(addAgainTool, JNum(6))

C22_Witness ==
    /\ Tools = <<addTool, addAgainTool>>
    /\ Cardinality(CallsOf(run[1], "Execute")) = 2
    /\ \A i \in CallsOf(run[1], "Execute") : run[1].calls[i].tool = 1
    /\ Cardinality(ToolResultsIn(ChatHistory)) = 2
    /\ \A i \in ToolResultsIn(ChatHistory) : ChatHistory[i] = ToolResultMessage(addTool, JNum(5))

\* the operations of the calls Run has made, in order
OpsOf(r) == [i \in DOMAIN r.calls |-> r.calls[i].op]

\* C23: the calls of Run are sequential and cyclic.  The first call is a
\* Think; a Think is followed by an Act and by nothing else; an Act is
\* followed by a tool execution or an Observe; an execution by an Observe;
\* an Observe by a Think.  After a Done action the Act that returned it is
\* the last call.  While Run waits for a model call that call is the last
\* one it started, so no two calls are in progress at once.
C23_CallCycle ==
    LET r == run[1]
        ops == OpsOf(r)
        last == Len(ops)
    IN  /\ last > 0 => ops[1] = "Think"
        /\ \A i \in 1..(last - 1) :
              /\ ops[i] = "Think" => ops[i + 1] = "Act"
              /\ ops[i] = "Act" => ops[i + 1] \in {"Execute", "Observe"}
              /\ ops[i] = "Execute" => ops[i + 1] = "Observe"
              /\ ops[i] = "Observe" => ops[i + 1] = "Think"
        /\ Cardinality(CallsOf(r, "Think")) = r.iter
        /\ Cardinality(CallsOf(r, "Act")) \in {r.iter - 1, r.iter}
        /\ (r.action.ActionType = "_done" /\ r.pc \notin {"act", "act_wait"})
              => (ops[last] = "Act" /\ r.pc \in {"branch", "returned", "panic"})
        /\ r.pc = "think_wait" => ops[last] = "Think"
        /\ r.pc = "act_wait" => ops[last] = "Act"
        /\ r.pc = "observe_wait" => ops[last] = "Observe"

C23_Witness ==
    /\ run[1].pc = "returned" /\ run[1].err = "" /\ run[1].action = Done("x")
    /\ OpsOf(run[1]) = <<"Think", "Act", "Execute", "Observe", "Think", "Act">>

\* C24: Run ends successfully exactly when the model gives a Done action.
\* A Run that has returned nil was given a Done at its last Act, the k-th,
\* after exactly k Think and k - 1 Observe calls, and a Done with its stop
\* reason makes Run return nil; and when every call returns, a Run that is
\* given no Done and meets no error does not return: it goes on to every
\* iteration explored.
C24_StopsExactlyOnDone ==
    /\ [](LET r == run[1]
          IN  /\ (r.pc = "returned" /\ r.err = "")
                    => /\ r.action.ActionType = "_done" /\ r.action.StopReason # Nil
                       /\ r.calls[Len(r.calls)].op = "Act"
                       /\ Cardinality(CallsOf(r, "Think")) = r.iter
                       /\ Cardinality(CallsOf(r, "Act")) = r.iter
                       /\ Cardinality(CallsOf(r, "Observe")) = r.iter - 1
              /\ (r.action.ActionType = "_done" /\ r.action.StopReason # Nil /\ r.pc # "branch")
                    => (r.pc = "returned" /\ r.err = ""))
    /\ <>(\/ run[1].pc \in {"returned", "panic"}
          \/ run[1].pc = "think" /\ run[1].iter = MaxIter)

C24_Witness ==
    /\ run[1].pc = "returned" /\ run[1].err = "" /\ run[1].action = Done("finished")
    /\ OpsOf(run[1]) = <<"Think", "Act", "Observe", "Think", "Act">>

\* C25: the Tool Registry is read-only.  No step of Run, the rendering of
\* the system prompt, the lookup and the execution included, changes
\* o.Tools: the registry holds the same tools in the same order after every
\* step, whether Run goes on, returns nil or returns an error.
C25_RegistryReadOnly == [][Tools' = Tools]_vars

C25_Witness ==
    /\ Tools = <<readTool, addTool, multiplyTool>>
    /\ run[1].pc = "returned" /\ run[1].err # "" /\ run[1].iter = 2
    /\ Cardinality(CallsOf(run[1], "Execute")) = 2
    /\ run[1].calls[Len(run[1].calls)].tool = 2

\* the texts a Thought or an Observation of the stub can carry (the empty
\* text when the response did not parse)
ModelTexts == {"t", "o", ""}

\* C26: the history after a successful Run.  When Run, started on an empty
\* history, returns nil after k iterations that each executed a registered
\* tool, the history is the system message, the user's prompt, k groups of
\* (assistant thought, user tool result, assistant observation) and one
\* last assistant thought: 3k + 3 messages, none of them recording the
\* Action or the stop reason.
C26_HistoryShape ==
    LET r == run[1]
        k == r.iter - 1
        h == ChatHistory
    IN  (r.pc = "returned" /\ r.err = "" /\ Cardinality(CallsOf(r, "Execute")) = k)
        => /\ Len(h) = 3 * k + 3
           /\ h[1] = BuildSystemPrompt(Tools)
           /\ h[2] = ChatMessage("user", r.prompt)
           /\ \A j \in 1..k :
                 /\ h[3 * j].Role = "assistant" /\ h[3 * j].Content \in ModelTexts
                 /\ IsToolResult(h[3 * j + 1])
                 /\ h[3 * j + 2].Role = "assistant" /\ h[3 * j + 2].Content \in ModelTexts
           /\ h[3 * k + 3].Role = "assistant" /\ h[3 * k + 3].Content \in ModelTexts
           /\ \A i \in DOMAIN h : h[i].Content \notin Reasons \cup {"_done", "tool_call"}

C26_Witness ==
    /\ run[1].pc = "returned" /\ run[1].err = "" /\ run[1].iter = 2
    /\ Len(ChatHistory) = 6
    /\ ChatHistory[3] = ChatMessage("assistant", "t")
    /\ ChatHistory[4] = ToolResultMessage(readTool, JStr("content"))
    /\ ChatHistory[5] = ChatMessage("assistant", "o")
    /\ ChatHistory[6] = ChatMessage("assistant", "t")

\* a turn is in flight: its context is installed and Prompt has not returned
InFlight(t) == t.pc \in {"notice", "run", "end"}

\* C27: while a turn is in flight for a session and its context has not
\* been cancelled, the cancel function the session stores is that turn's,
\* under every interleaving of the Prompt and Cancel requests on the
\* session: a later Prompt cancels the earlier turn before it installs its
\* own, and the end of an earlier turn leaves the later turn's in place.
C27_CancelIsOfRunningTurn ==
    \A p \in Procs :
        (InFlight(turn[p]) /\ turn[p].ctx = "live")
        => sessions[turn[p].sid].cancel = p

\* the positions of the updates of one kind a turn has handed on
UpdatesOf(t, kind) == {i \in DOMAIN t.updates : t.updates[i].kind = kind}

\* the position of the last tool-call start before a position, 0 if none
LastStartBefore(t, i) ==
    IF \E j \in UpdatesOf(t, "tool_call") : j < i
    THEN CHOOSE j \in UpdatesOf(t, "tool_call") :
            j < i /\ \A m \in UpdatesOf(t, "tool_call") : m < i => m <= j
    ELSE 0

\* C28: tool-call correlation within a turn.  The n-th start event of a
\* turn carries the id call_n, so the ids go up by one and none is used
\* twice, and every completion event carries the id of the last start
\* event before it.
C28_CallIds ==
    LET t == turn[1]
        starts == UpdatesOf(t, "tool_call")
    IN  /\ \A i \in starts :
              t.updates[i].id = CallId(Cardinality({j \in starts : j <= i}))
        /\ \A i \in starts, j \in starts : i # j => t.updates[i].id # t.updates[j].id
        /\ t.toolCallId = Cardinality(starts)
        /\ \A i \in UpdatesOf(t, "tool_call_update") :
              /\ LastStartBefore(t, i) # 0
              /\ t.updates[i].id = t.updates[LastStartBefore(t, i)].id

C28_Witness ==
    LET t == turn[1]
    IN  /\ t.served = 1
        /\ \E i, j, m \in DOMAIN t.updates :
              /\ i < j /\ j < m
              /\ t.updates[i] = Update("tool_call", "call_1", "pending")
              /\ t.updates[j] = Update("tool_call", "call_2", "pending")
              /\ t.updates[m] = Update("tool_call_update", "call_2", "5")
        /\ UpdatesOf(t, "tool_call_update") \subseteq {Len(t.updates)}

\* C29: every tool-call start event of a turn is followed by a completion
\* event with its id before the turn's run goes on: no observation and no
\* later thought is handed on while a started tool call has no completion.
C29_StartsAreCompleted ==
    LET t == turn[1]
    IN  \A i \in UpdatesOf(t, "tool_call") :
            (\E j \in UpdatesOf(t, "thought") \cup UpdatesOf(t, "message") : j > i)
            => \E m \in UpdatesOf(t, "tool_call_update") :
                  m > i /\ t.updates[m].id = t.updates[i].id

\* the step in which the Prompt of goroutine p returns its response
Responds(p) == turn[p].pc # "done" /\ turn'[p].pc = "done"

\* a Prompt for a session id that was never created returns "session not
\* found" and starts no run, hands on no update and changes no session
NotFoundIsInert(p) ==
    (Responds(p) /\ ~sessions[turn'[p].sid].exists)
    => /\ turn'[p].err = "session " \o turn'[p].sid \o " not found"
       /\ turn'[p].stopReason = "" /\ turn'[p].updates = <<>>
       /\ run' = run /\ sessions' = sessions /\ ChatHistory' = ChatHistory

TakeTurnErr(t, r) == IF t.pc = "end" THEN t.takeErr ELSE r.err

KindOfRole(role) ==
    CASE role = "system" -> "SystemMessage"
      [] role = "assistant" -> "AssistantMessage"
      [] OTHER -> "UserMessage"

\* C31: BuildChatHistory preserves the history.  The request of every model
\* call holds one transport message per entry of the history, in the same
\* order and with the same content, a system message for the role "system",
\* an assistant message for "assistant" and a user message for every other
\* role, and building it leaves the history as it was.
C31_HistoryPreserved ==
    [][ (run[1].pc \in {"think", "act", "observe"} /\ run'[1].pc # run[1].pc)
           => LET req == run'[1].request
              IN  /\ Len(req) = Len(ChatHistory)
                  /\ \A i \in DOMAIN ChatHistory :
                        /\ req[i].content = ChatHistory[i].Content
                        /\ req[i].kind = KindOfRole(ChatHistory[i].Role)
                  /\ ChatHistory' = ChatHistory ]_vars

C31_Witness ==
    /\ run[1].pc = "act_wait"
    /\ ChatHistory = <<ChatMessage("tool", "a"), ChatMessage("system", "b")>>
    /\ run[1].request = <<[kind |-> "UserMessage", content |-> "a"],
                          [kind |-> "SystemMessage", content |-> "b"]>>

====
